---------------------------- MODULE Spec2Model ----------------------------
(***************************************************************************)
(* A model of the Thirukural backend (thirukural_backend/src/api).         *)
(*                                                                         *)
(*   main.py        _load_dataset (run once at import), the three request  *)
(*                  handlers health_check, get_random_thirukural and       *)
(*                  analyze_thirukural, and the module global _DATASET     *)
(*   ai_service.py  AIConfig.from_env and analyze_kural_for_user           *)
(*   models.py      ThirukuralOut, AnalyzeKuralIn                          *)
(*                                                                         *)
(* Python values are records tagged with their type in field t:            *)
(*   [t |-> "absent"]            the key is missing from the mapping       *)
(*   [t |-> "none"]              None (JSON null)                          *)
(*   [t |-> "int",   n |-> n]    an int                                    *)
(*   [t |-> "bool",  b |-> b]    a bool (a subclass of int in Python)      *)
(*   [t |-> "float", f |-> n]    a float that is not integral (n + 0.5)    *)
(*   [t |-> "str",   s |-> s]    a str, s the sequence of its characters   *)
(*   [t |-> "list"]              a JSON array                              *)
(*   [t |-> "dict", Number |-> .., number |-> .., ...]  a JSON object,     *)
(*                               one field for each key the code reads     *)
(***************************************************************************)
EXTENDS Integers, Sequences, FiniteSets, TLC

VARIABLES
    file,        \* the data file at _DATA_FILE_PATH, as the loader finds it
    env,         \* the process environment that AIConfig.from_env reads
    pc,          \* "import" | "serving" | "crashed": the position of the process
    _DATASET,    \* the module global of main.py
    loadError,   \* the exception that ended the import, or "none"
    loadCalls,   \* how many times _load_dataset has been called
    requests,    \* the request handlers in flight, one per worker thread
    picks,       \* the items random.choice has returned, in call order
    call         \* a direct call of analyze_kural_for_user: its payload and outcome

vars == <<file, env, pc, _DATASET, loadError, loadCalls, requests, picks, call>>

-----------------------------------------------------------------------------
(* Bounds of the model.                                                    *)

\* the longest text value (Line1, kural, Translation, ...) in characters
MaxLen == 2
\* the longest Number string in characters
MaxNumLen == 3
\* the longest data file, in records
MaxItems == 2
\* the number of worker threads, each serving one request
MaxReq == 3

-----------------------------------------------------------------------------
(* Python values.                                                          *)

Absent == [t |-> "absent"]
None == [t |-> "none"]
IntV(n) == [t |-> "int", n |-> n]
BoolV(b) == [t |-> "bool", b |-> b]
FloatV(n) == [t |-> "float", f |-> n]
StrV(s) == [t |-> "str", s |-> s]
ListV == [t |-> "list"]

\* isinstance(x, str)
IsStr(x) == x.t = "str"

\* isinstance(x, int): bool is a subclass of int, so True and False pass
IsInt(x) == x.t \in {"int", "bool"}

\* isinstance(x, dict)
IsDict(x) == x.t = "dict"

\* obj.get(key, default): the value under the key when the key is present
Get(obj, key, default) == IF obj[key] = Absent THEN default ELSE obj[key]

-----------------------------------------------------------------------------
(* Strings: sequences of characters.                                       *)

NL == "\n"

\* the characters str.strip() removes
Whitespace == {" ", NL}

RECURSIVE lstrip(_)
lstrip(s) ==
    IF s = <<>> THEN s
    ELSE IF Head(s) \in Whitespace THEN lstrip(Tail(s)) ELSE s

RECURSIVE rstrip(_)
rstrip(s) ==
    IF s = <<>> THEN s
    ELSE IF s[Len(s)] \in Whitespace THEN rstrip(SubSeq(s, 1, Len(s) - 1)) ELSE s

\* str.strip()
strip(s) == rstrip(lstrip(s))

\* the truth value of a str: non-empty
Truthy(s) == s # <<>>

\* the characters int() and float() read as decimal digits
DecimalChars == {"2", "7"}

\* the characters str.isdigit() accepts: the decimal digits and the digits
\* that are not decimal, such as SUPERSCRIPT TWO (written "sup2")
DigitChars == DecimalChars \cup {"sup2"}

DigitVal(c) == CASE c = "2" -> 2 [] c = "7" -> 7

\* str.isdigit()
isdigit(s) == s # <<>> /\ \A i \in 1..Len(s) : s[i] \in DigitChars

AllDecimal(s) == \A i \in 1..Len(s) : s[i] \in DecimalChars

\* the value of a run of decimal digits (0 for the empty run)
RECURSIVE DecimalValue(_)
DecimalValue(s) ==
    IF s = <<>> THEN 0
    ELSE 10 * DecimalValue(SubSeq(s, 1, Len(s) - 1)) + DigitVal(s[Len(s)])

Raise(exc) == [t |-> "raise", exc |-> exc]
IsRaise(x) == x.t = "raise"

\* int(s) for a str that isdigit() accepts: int() reads decimal digits only
int_digits(s) ==
    IF AllDecimal(s) THEN IntV(DecimalValue(s)) ELSE Raise("ValueError")

\* the position of the first "." of s, or Len(s) + 1
RECURSIVE DotAt(_)
DotAt(s) == IF s = <<>> \/ Head(s) = "." THEN 1 ELSE 1 + DotAt(Tail(s))

\* int(float(s)) for a str: float() allows surrounding whitespace, a sign,
\* and decimal digits around at most one point, with a digit on one side
\* at least; int() then truncates toward zero
Negative(u) == u # <<>> /\ Head(u) = "-"
Unsigned(u) == IF Negative(u) THEN Tail(u) ELSE u
Whole(d) == SubSeq(d, 1, DotAt(d) - 1)
Frac(d) == SubSeq(d, DotAt(d) + 1, Len(d))
IsFloatText(d) ==
    AllDecimal(Whole(d)) /\ AllDecimal(Frac(d)) /\ Len(Whole(d)) + Len(Frac(d)) > 0

int_float_stripped(u) ==
    IF IsFloatText(Unsigned(u))
    THEN IntV(IF Negative(u) THEN 0 - DecimalValue(Whole(Unsigned(u)))
              ELSE DecimalValue(Whole(u)))
    ELSE Raise("ValueError")

int_float_str(s) == int_float_stripped(strip(s))

-----------------------------------------------------------------------------
(* main.py: _load_dataset and its three local functions.                   *)

Keys ==
    {"Number", "number", "Line1", "Line2", "kural", "Translation", "couplet",
     "explanation", "translation", "section", "chapter"}

\* a JSON object with no key at all: {}
EmptyDict == [k \in Keys \cup {"t"} |-> IF k = "t" THEN "dict" ELSE Absent]

\* the JSON object with the given keys set
Dict(fields) ==
    [k \in Keys \cup {"t"} |->
        IF k \in DOMAIN fields THEN fields[k] ELSE EmptyDict[k]]

\* try: return r / except Exception: return None
OrNone(r) == IF IsRaise(r) THEN None ELSE r

\* _get_number once num is read
number_of(num) ==
    IF IsStr(num)
    THEN IF isdigit(num.s) THEN int_digits(num.s) ELSE OrNone(int_float_str(num.s))
    ELSE num

_get_number(obj) == number_of(Get(obj, "Number", Get(obj, "number", None)))

\* _get_kural with the kural key tried before the two lines
_get_kural_field_first(obj) ==
    LET line1 == Get(obj, "Line1", None)
        line2 == Get(obj, "Line2", None)
        composed == strip(line1.s) \o <<NL>> \o strip(line2.s)
        k == Get(obj, "kural", None)
    IN  IF IsStr(k) /\ Truthy(strip(k.s)) THEN k
        ELSE IF IsStr(line1) /\ IsStr(line2) /\ Truthy(strip(composed))
        THEN StrV(composed)
        ELSE None

\* _get_kural with the kural key trimmed as the translation is
_get_kural_stripped(obj) ==
    LET line1 == Get(obj, "Line1", None)
        line2 == Get(obj, "Line2", None)
        composed == strip(line1.s) \o <<NL>> \o strip(line2.s)
        k == Get(obj, "kural", None)
    IN  IF IsStr(line1) /\ IsStr(line2) /\ Truthy(strip(composed))
        THEN StrV(composed)
        ELSE IF IsStr(k) /\ Truthy(strip(k.s)) THEN StrV(strip(k.s)) ELSE None

_get_kural(obj) ==
    LET line1 == Get(obj, "Line1", None)
        line2 == Get(obj, "Line2", None)
        composed == strip(line1.s) \o <<NL>> \o strip(line2.s)
        k == Get(obj, "kural", None)
    IN  IF IsStr(line1) /\ IsStr(line2) /\ Truthy(strip(composed))
        THEN StrV(composed)
        ELSE IF IsStr(k) /\ Truthy(strip(k.s)) THEN k ELSE None

\* the keys with couplet tried before Translation
TranslationKeys_couplet_first == <<"couplet", "Translation", "explanation", "translation">>

TranslationKeys == <<"Translation", "couplet", "explanation", "translation">>

\* the for loop of _get_translation over the keys that are left
RECURSIVE ScanTranslation(_, _)
ScanTranslation(obj, keys) ==
    IF keys = <<>> THEN None
    ELSE LET val == Get(obj, Head(keys), None)
         IN  IF IsStr(val) /\ Truthy(strip(val.s))
             THEN StrV(strip(val.s))
             ELSE ScanTranslation(obj, Tail(keys))

_get_translation(obj) == ScanTranslation(obj, TranslationKeys)

\* section = section if isinstance(section, str) else None
OptionalStr(x) == IF IsStr(x) THEN x ELSE None

Skip == [t |-> "skip"]

\* one pass of the loop over data: Skip (continue), the record appended to
\* normalized, or the exception that leaves the loop
\* Validate without the check of kural
Validate_kural_unchecked(item, number, kural, translation) ==
    IF ~IsInt(number) \/ ~IsStr(translation)
    THEN Skip
    ELSE [t |-> "record",
          number |-> number,
          kural |-> kural,
          translation |-> translation,
          section |-> OptionalStr(Get(item, "section", None)),
          chapter |-> OptionalStr(Get(item, "chapter", None))]

Validate(item, number, kural, translation) ==
    IF ~IsInt(number) \/ ~IsStr(kural) \/ ~IsStr(translation)
    THEN Skip
    ELSE [t |-> "record",
          number |-> number,
          kural |-> kural,
          translation |-> translation,
          section |-> OptionalStr(Get(item, "section", None)),
          chapter |-> OptionalStr(Get(item, "chapter", None))]

\* the three calls: an exception of the first leaves before the others run
Resolve(item, number) ==
    IF IsRaise(number) THEN number
    ELSE Validate(item, number, _get_kural(item), _get_translation(item))

NormalizeItem(item) ==
    IF ~IsDict(item) THEN Skip ELSE Resolve(item, _get_number(item))

\* the loop over data, normalized so far in acc; r is what the pass over
\* the first of data gave
RECURSIVE NormalizeAll(_, _)
RECURSIVE NormalizeRest(_, _, _)
NormalizeRest(r, data, acc) ==
    IF IsRaise(r) THEN r
    ELSE NormalizeAll(data, IF r = Skip THEN acc ELSE Append(acc, r))

NormalizeAll(data, acc) ==
    IF data = <<>> THEN [t |-> "ok", records |-> acc]
    ELSE NormalizeRest(NormalizeItem(Head(data)), Tail(data), acc)

\* the data file: absent, unreadable, not JSON, or holding a JSON value
MissingFile == [status |-> "missing"]
BadJsonFile == [status |-> "invalid_json"]
JsonFile(data) == [status |-> "json", data |-> data]
JsonList(items) == [t |-> "list", items |-> items]

\* if not normalized: raise RuntimeError
NonEmpty(r) ==
    IF IsRaise(r) THEN r
    ELSE IF r.records = <<>> THEN Raise("RuntimeError")
    ELSE r

_load_dataset(f) ==
    IF f.status = "missing" THEN Raise("RuntimeError")
    ELSE IF f.status = "invalid_json" THEN Raise("RuntimeError")
    ELSE IF f.data.t # "list" THEN Raise("RuntimeError")
    ELSE NonEmpty(NormalizeAll(f.data.items, <<>>))

-----------------------------------------------------------------------------
(* ai_service.py.  An environment variable is Absent or [t |-> "str",      *)
(* text |-> its text].                                                        *)

EnvStr(s) == [t |-> "str", text |-> s]

\* os.getenv(name, default)
getenv(e, name, default) == IF e[name] = Absent THEN default ELSE e[name]

\* str.lower() on the texts an environment variable takes here
lower(s) == CASE s = "TRUE" -> "true" [] OTHER -> s

\* AIConfig.from_env
from_env(e) ==
    LET key == getenv(e, "OPENAI_API_KEY", None)
        model == getenv(e, "OPENAI_MODEL", None)
    IN  [openai_api_key |-> IF IsStr(key) /\ key.text # "" THEN key ELSE None,
         openai_model |-> IF IsStr(model) /\ model.text # "" THEN model.text ELSE "gpt-5-nano",
         disable_external_calls |->
             lower(getenv(e, "DISABLE_EXTERNAL_CALLS", EnvStr("true")).text) = "true"]

analyze_kural_for_user(payload, user_name, e) ==
    LET cfg == from_env(e)
        number == Get(payload, "number", None)
        kural_raw == Get(payload, "kural", StrV(<<>>))
        translation_raw == Get(payload, "translation", StrV(<<>>))
        kural == strip(kural_raw.s)
        translation == strip(translation_raw.s)
        use_external == cfg.openai_api_key # None /\ ~cfg.disable_external_calls
    IN  \* .strip() of a value that is no str
        IF ~IsStr(kural_raw) \/ ~IsStr(translation_raw) THEN Raise("AttributeError")
        ELSE IF ~IsInt(number) \/ ~Truthy(kural) \/ ~Truthy(translation)
        THEN Raise("ValueError")
        ELSE IF ~use_external
        THEN [t |-> "result",
              number |-> number,
              kural |-> StrV(kural),
              translation |-> StrV(translation),
              explanation |-> [template |-> "placeholder", user_name |-> user_name,
                              number |-> number, translation |-> translation],
              model |-> "placeholder",
              external_call_used |-> FALSE]
        ELSE [t |-> "result",
              number |-> number,
              kural |-> StrV(kural),
              translation |-> StrV(translation),
              explanation |-> [template |-> "simulated", user_name |-> user_name,
                              model |-> cfg.openai_model, translation |-> translation],
              model |-> cfg.openai_model,
              external_call_used |-> TRUE]

-----------------------------------------------------------------------------
(* models.py and the responses of main.py.                                 *)

\* ThirukuralOut(**item) for a record of _DATASET
ThirukuralOut(item) ==
    [number |-> item.number, kural |-> item.kural, translation |-> item.translation,
     section |-> item.section, chapter |-> item.chapter]

\* an AnalyzeKuralIn: the request body after validation at the API layer
AnalyzeKuralIn(number, kural, translation) ==
    Dict([number |-> IntV(number), kural |-> StrV(kural), translation |-> StrV(translation)])

Response(status, body) == [status |-> status, body |-> body]
NoResponse == [status |-> 0, body |-> None]

\* raise HTTPException(status_code, detail)
HTTPException(status, detail) == [status |-> status, body |-> [t |-> "detail", detail |-> detail]]

\* a choice that always takes the first element
choice_first(seq) == {seq[i] : i \in {1} \cap DOMAIN seq}

\* random.choice(seq): any element of a non-empty sequence
choice(seq) == {seq[i] : i \in 1..Len(seq)}

-----------------------------------------------------------------------------
(* The data files and requests the model draws from.                       *)

Str1(c) == StrV(<<c>>)

\* the records of tests/test_normalization.py, with one-character texts,
\* and a record whose Number is a digit that is no decimal
NonDictItem == Str1("a")
NotNumberItem ==
    Dict([Number |-> Str1("x"), Line1 |-> Str1("a"), Line2 |-> Str1("a"),
          Translation |-> Str1("a")])
EmptyLinesItem ==
    Dict([Number |-> IntV(5), Line1 |-> StrV(<<>>), Line2 |-> StrV(<<>>),
          Translation |-> Str1("a")])
LegacyItem ==
    Dict([number |-> IntV(10), kural |-> Str1("a"), translation |-> Str1("a"),
          section |-> Str1("a"), chapter |-> Str1("a")])
ExtendedItem ==
    Dict([Number |-> Str1("2"), Line1 |-> Str1("a"), Line2 |-> Str1("a"),
          couplet |-> Str1("a")])
SuperscriptItem ==
    Dict([Number |-> Str1("sup2"), kural |-> Str1("a"), translation |-> Str1("a")])

CoreItems ==
    {NonDictItem, EmptyDict, NotNumberItem, EmptyLinesItem, LegacyItem,
     ExtendedItem, SuperscriptItem}

SeqsUpTo(S, n) == UNION {[1..k -> S] : k \in 0..n}

CoreFiles ==
    {MissingFile, BadJsonFile, JsonFile(EmptyDict), JsonFile(None)}
    \cup {JsonFile(JsonList(items)) : items \in SeqsUpTo(CoreItems, MaxItems)}

\* the texts of the wide records
TextChars == {" ", "a"}
TextStrs == SeqsUpTo(TextChars, MaxLen)
TextValues == {Absent, None, IntV(3)} \cup {StrV(s) : s \in TextStrs}
NonBlankValues == {StrV(s) : s \in {x \in TextStrs : strip(x) # <<>>}}

NumChars == {"2", "7", ".", "-", " ", "x", "sup2"}
NumberValues ==
    {Absent, None, IntV(3), IntV(-1), BoolV(TRUE), FloatV(2), ListV}
    \cup {StrV(s) : s \in SeqsUpTo(NumChars, MaxNumLen)}

\* records that vary the number keys
NumberItems ==
    {Dict([Number |-> a, number |-> b, kural |-> Str1("a"), translation |-> Str1("a")]) :
        a \in NumberValues, b \in {Absent, None, IntV(5), Str1("7")}}

\* records that vary the kural keys
KuralItems ==
    {Dict([Number |-> IntV(1), Line1 |-> a, Line2 |-> b, kural |-> c,
           Translation |-> Str1("a")]) :
        a \in TextValues, b \in TextValues, c \in TextValues}

\* what a translation key may hold: nothing, no str, a blank str, or a text
\* of the letter c, bare or padded
TranslationValues(c) ==
    {Absent, None, IntV(3), StrV(<<>>), Str1(" "), Str1(c), StrV(<<" ", c, NL>>)}

\* records that vary the translation keys, each key with a letter of its own
TranslationItems ==
    {Dict([Number |-> IntV(1), kural |-> Str1("a"), Translation |-> a, couplet |-> b,
           explanation |-> c, translation |-> d]) :
        a \in TranslationValues("T"), b \in TranslationValues("c"),
        c \in TranslationValues("e"), d \in TranslationValues("t")}

\* legacy-schema records, valid but for section and chapter, which vary freely
LegacyItems ==
    {Dict([number |-> n, kural |-> k, translation |-> tr, section |-> a, chapter |-> b]) :
        n \in {IntV(1), IntV(10)}, k \in NonBlankValues, tr \in NonBlankValues,
        a \in {Absent, None, IntV(3), Str1("a"), Str1(" ")},
        b \in {Absent, None, IntV(3), Str1("a"), Str1(" ")}}

WideItems == NumberItems \cup KuralItems \cup TranslationItems \cup LegacyItems

WideFiles == {JsonFile(JsonList(<<item>>)) : item \in WideItems}

DefaultEnv ==
    [OPENAI_API_KEY |-> Absent, OPENAI_MODEL |-> Absent, DISABLE_EXTERNAL_CALLS |-> Absent]

Envs ==
    [OPENAI_API_KEY : {Absent, EnvStr(""), EnvStr("sk")},
     OPENAI_MODEL : {Absent, EnvStr("m")},
     DISABLE_EXTERNAL_CALLS : {Absent, EnvStr("TRUE"), EnvStr("false")}]

\* the bodies of the analyze requests that pass the API layer
RequestBodies == {AnalyzeKuralIn(1, <<"a">>, <<"a">>), AnalyzeKuralIn(1, <<" ">>, <<"a">>)}

\* the payloads of the direct calls of analyze_kural_for_user
CallPayloads ==
    {Dict([number |-> n, kural |-> k, translation |-> tr]) :
        n \in {Absent, None, IntV(1), BoolV(TRUE), FloatV(1), Str1("1")},
        k \in TextValues, tr \in TextValues}

-----------------------------------------------------------------------------
(* The process: the import of main.py, then the request handlers, each in  *)
(* a worker thread of its own.                                             *)

Requests == 1..MaxReq

Idle == [op |-> "none", at |-> "idle", payload |-> None, resp |-> NoResponse]
NoCall == [at |-> "none", payload |-> None, result |-> None]

\* the module as the import finds it: _DATASET = [] and nothing loaded yet
Start ==
    /\ pc = "import"
    /\ _DATASET = <<>>
    /\ loadError = "none"
    /\ loadCalls = 0
    /\ requests = [r \in Requests |-> Idle]
    /\ picks = <<>>

Init ==
    /\ file \in CoreFiles
    /\ env = DefaultEnv
    /\ call = NoCall
    /\ Start

\* _DATASET = _load_dataset() at the import of main.py; an exception ends
\* the import, and with it the process, before the app is served
Imported(r) ==
    IF IsRaise(r)
    THEN /\ pc' = "crashed"
         /\ loadError' = r.exc
         /\ UNCHANGED _DATASET
    ELSE /\ pc' = "serving"
         /\ _DATASET' = r.records
         /\ UNCHANGED loadError

Load ==
    /\ pc = "import"
    /\ Imported(_load_dataset(file))
    /\ loadCalls' = loadCalls + 1
    /\ UNCHANGED <<file, env, requests, picks, call>>

\* uvicorn hands a request to its handler; only a served app gets requests
Receive(r) ==
    /\ pc = "serving"
    /\ requests[r].at = "idle"
    /\ \/ requests' = [requests EXCEPT ![r].op = "health", ![r].at = "health"]
       \/ requests' = [requests EXCEPT ![r].op = "random", ![r].at = "random"]
       \/ \E body \in RequestBodies :
              requests' = [requests EXCEPT ![r].op = "analyze", ![r].at = "analyze",
                                           ![r].payload = body]
    /\ UNCHANGED <<file, env, pc, _DATASET, loadError, loadCalls, picks, call>>

health_check(r) ==
    /\ requests[r].at = "health"
    /\ requests' = [requests EXCEPT
           ![r].at = "done",
           ![r].resp = Response(200, [t |-> "message", message |-> "Healthy"])]
    /\ UNCHANGED <<file, env, pc, _DATASET, loadError, loadCalls, picks, call>>

\* get_random_thirukural, its first read of _DATASET: if not _DATASET
get_random_thirukural_guard(r) ==
    /\ requests[r].at = "random"
    /\ requests' =
           IF _DATASET = <<>>
           THEN [requests EXCEPT ![r].at = "done",
                                 ![r].resp = HTTPException(503, "Dataset unavailable")]
           ELSE [requests EXCEPT ![r].at = "choice"]
    /\ UNCHANGED <<file, env, pc, _DATASET, loadError, loadCalls, picks, call>>

\* get_random_thirukural taking the item out of _DATASET as it returns it
get_random_thirukural_item_pop(r, item) ==
    /\ requests[r].at = "choice"
    /\ item \in choice(_DATASET)
    /\ requests' = [requests EXCEPT ![r].at = "done",
                                    ![r].resp = Response(200, ThirukuralOut(item))]
    /\ picks' = Append(picks, item)
    /\ _DATASET' = SelectSeq(_DATASET, LAMBDA x : x # item)
    /\ UNCHANGED <<file, env, pc, loadError, loadCalls, call>>

\* get_random_thirukural, its second read of _DATASET: random.choice
\* returns item, and the handler returns ThirukuralOut(**item)
get_random_thirukural_item(r, item) ==
    /\ requests[r].at = "choice"
    /\ item \in choice(_DATASET)
    /\ requests' = [requests EXCEPT ![r].at = "done",
                                    ![r].resp = Response(200, ThirukuralOut(item))]
    /\ picks' = Append(picks, item)
    /\ UNCHANGED <<file, env, pc, _DATASET, loadError, loadCalls, call>>

\* random.choice(_DATASET): of an empty sequence it raises IndexError, a 500
get_random_thirukural_choice(r) ==
    /\ requests[r].at = "choice"
    /\ IF _DATASET = <<>>
       THEN /\ requests' = [requests EXCEPT
                   ![r].at = "done",
                   ![r].resp = HTTPException(500, "Internal Server Error")]
            /\ UNCHANGED <<file, env, pc, _DATASET, loadError, loadCalls, picks, call>>
       ELSE \E item \in choice(_DATASET) : get_random_thirukural_item(r, item)

get_random_thirukural(r) ==
    \/ get_random_thirukural_guard(r)
    \/ get_random_thirukural_choice(r)

\* the try of analyze_thirukural: the result, or the exception mapped
Handled(result) ==
    IF ~IsRaise(result) THEN Response(200, result)
    ELSE IF result.exc = "ValueError"
    THEN HTTPException(422, "Invalid payload")
    ELSE HTTPException(500, "Unable to analyze the Kural at this time.")

analyze_thirukural(r) ==
    /\ requests[r].at = "analyze"
    /\ requests' = [requests EXCEPT
           ![r].at = "done",
           ![r].resp = Handled(analyze_kural_for_user(requests[r].payload, "Al Ayman", env))]
    /\ UNCHANGED <<file, env, pc, _DATASET, loadError, loadCalls, picks, call>>

\* a direct call of analyze_kural_for_user(payload)
Call ==
    /\ call.at = "ready"
    /\ call' = [call EXCEPT
           !.at = "returned",
           !.result = analyze_kural_for_user(call.payload, "Al Ayman", env)]
    /\ UNCHANGED <<file, env, pc, _DATASET, loadError, loadCalls, requests, picks>>

Next ==
    \/ Load
    \/ \E r \in Requests : Receive(r)
    \/ \E r \in Requests : health_check(r)
    \/ \E r \in Requests : get_random_thirukural(r)
    \/ \E r \in Requests : analyze_thirukural(r)

Spec == Init /\ [][Next]_vars

\* the loader alone, on data files of one wide record
LoadInit ==
    /\ file \in WideFiles
    /\ env = DefaultEnv
    /\ call = NoCall
    /\ Start

LoadSpec == LoadInit /\ [][Load]_vars

\* analyze_kural_for_user alone, called with any payload
CallInit ==
    /\ file = MissingFile
    /\ env \in Envs
    /\ call \in {[at |-> "ready", payload |-> p, result |-> None] : p \in CallPayloads}
    /\ Start

CallSpec == CallInit /\ [][Call]_vars

-----------------------------------------------------------------------------
(* What the specification says of a raw record, stated on its own terms.   *)

IsListFile == file.status = "json" /\ file.data.t = "list"

\* the records of the data file, none when it holds no list
Items == IF IsListFile THEN file.data.items ELSE <<>>

\* the data file holds one record, a mapping
OneRecord == Len(Items) = 1 /\ IsDict(Items[1])

Present(x) == IF x = Absent THEN None ELSE x

NonBlankStr(x) == IsStr(x) /\ strip(x.s) # <<>>

\* the value number resolution starts from: Number, else number
RawNumber(item) == IF item.Number # Absent THEN item.Number ELSE Present(item.number)

\* a string of decimal digits is that integer; another string that parses
\* as a float is the float truncated; anything else resolves to nothing
SpecNumber(item) ==
    LET v == RawNumber(item)
    IN  IF ~IsStr(v) THEN v
        ELSE IF v.s # <<>> /\ AllDecimal(v.s) THEN IntV(DecimalValue(v.s))
        ELSE OrNone(int_float_str(v.s))

\* both lines strings and one of them non-blank: the trimmed lines joined;
\* else the kural field when it is a non-blank string
SpecKural(item) ==
    IF /\ IsStr(item.Line1)
       /\ IsStr(item.Line2)
       /\ (strip(item.Line1.s) # <<>> \/ strip(item.Line2.s) # <<>>)
    THEN StrV(strip(item.Line1.s) \o <<NL>> \o strip(item.Line2.s))
    ELSE IF NonBlankStr(item.kural) THEN item.kural ELSE None

\* the first of Translation, couplet, explanation, translation that holds a
\* non-blank string, trimmed
SpecTranslation(item) ==
    LET vals == <<item.Translation, item.couplet, item.explanation, item.translation>>
        good == {i \in 1..4 : NonBlankStr(vals[i])}
        first == CHOOSE i \in good : \A j \in good : i <= j
    IN  IF good = {} THEN None ELSE StrV(strip(vals[first].s))

SpecValid(item) ==
    /\ IsDict(item)
    /\ IsInt(SpecNumber(item))
    /\ SpecKural(item) # None
    /\ SpecTranslation(item) # None

SpecRecord(item) ==
    [t |-> "record",
     number |-> SpecNumber(item),
     kural |-> SpecKural(item),
     translation |-> SpecTranslation(item),
     section |-> IF IsStr(item.section) THEN item.section ELSE None,
     chapter |-> IF IsStr(item.chapter) THEN item.chapter ELSE None]

\* the normalized valid records of items, in order
RECURSIVE SpecRecords(_)
SpecRecords(items) ==
    IF items = <<>> THEN <<>>
    ELSE IF SpecValid(Head(items))
    THEN <<SpecRecord(Head(items))>> \o SpecRecords(Tail(items))
    ELSE SpecRecords(Tail(items))

NoHandlerRan == \A r \in Requests : requests[r] = Idle

-----------------------------------------------------------------------------
(* The claims.                                                             *)

\* the four fatal cases: no file, no JSON, no list, no valid record
FatalSource ==
    \/ file.status \in {"missing", "invalid_json"}
    \/ file.status = "json" /\ file.data.t # "list"
    \/ IsListFile /\ \A i \in 1..Len(Items) : ~SpecValid(Items[i])

\* C1: in each of the four fatal cases the one load ends in RuntimeError,
\* the load is called once at most, and no request handler ever runs.
C1_FatalLoad ==
    /\ loadCalls <= 1
    /\ (pc # "import" /\ FatalSource) =>
           /\ pc = "crashed"
           /\ loadError = "RuntimeError"
           /\ NoHandlerRan

\* C2: a list with a valid record in it loads, and _DATASET is the
\* normalized valid records in source order, whatever else the list holds.
C2_ValidRecordsInOrder ==
    (pc # "import" /\ IsListFile /\ \E i \in 1..Len(Items) : SpecValid(Items[i])) =>
        /\ pc = "serving"
        /\ _DATASET = SpecRecords(Items)

\* C3: after a successful load every record of _DATASET has an integer
\* number (isinstance(number, int), which True and False satisfy too), a
\* non-blank string kural, a non-blank string translation, and a section
\* and a chapter that are each a string or None.
C3_CanonicalRecords ==
    pc = "serving" =>
        \A i \in 1..Len(_DATASET) :
            /\ IsInt(_DATASET[i].number)
            /\ NonBlankStr(_DATASET[i].kural)
            /\ NonBlankStr(_DATASET[i].translation)
            /\ IsStr(_DATASET[i].section) \/ _DATASET[i].section = None
            /\ IsStr(_DATASET[i].chapter) \/ _DATASET[i].chapter = None

\* a record loaded whose section was no string and whose chapter was one
C3_Witness ==
    /\ pc = "serving"
    /\ OneRecord
    /\ Items[1].section = IntV(3)
    /\ Items[1].chapter = Str1("a")
    /\ _DATASET[1].section = None
    /\ _DATASET[1].chapter = Str1("a")

\* C4: the translation of a record is the trimmed value of the first of
\* Translation, couplet, explanation, translation that holds a non-blank
\* string; with none, the record is skipped.
C4_TranslationPriority ==
    OneRecord =>
        /\ _get_translation(Items[1]) = SpecTranslation(Items[1])
        /\ pc = "serving" => _DATASET[1].translation = SpecTranslation(Items[1])
        /\ (pc # "import" /\ SpecTranslation(Items[1]) = None) => _DATASET = <<>>

\* Translation blank, couplet no string: the padded explanation, trimmed,
\* is taken before translation
C4_Witness ==
    /\ pc = "serving"
    /\ OneRecord
    /\ Items[1].Translation = Str1(" ")
    /\ Items[1].couplet = IntV(3)
    /\ Items[1].explanation = StrV(<<" ", "e", NL>>)
    /\ Items[1].translation = Str1("t")
    /\ _DATASET[1].translation = Str1("e")

\* C5: the kural of a record is trim(Line1) + "\n" + trim(Line2) when both
\* lines are strings and the joined text is not blank, whatever the kural
\* key holds; else the kural key when it is a non-blank string; else the
\* record is skipped.
C5_KuralResolution ==
    OneRecord =>
        /\ _get_kural(Items[1]) = SpecKural(Items[1])
        /\ pc = "serving" => _DATASET[1].kural = SpecKural(Items[1])
        /\ (pc # "import" /\ SpecKural(Items[1]) = None) => _DATASET = <<>>

\* a padded Line1 and an empty Line2 win over a kural key that is set
C5_Witness ==
    /\ pc = "serving"
    /\ OneRecord
    /\ Items[1].Line1 = StrV(<<" ", "a">>)
    /\ Items[1].Line2 = StrV(<<>>)
    /\ Items[1].kural = StrV(<<"a", "a">>)
    /\ _DATASET[1].kural = StrV(<<"a", NL>>)

\* C6: a number given as a string resolves to an integer or to nothing, and
\* then the record is skipped; no string makes the load fail by itself:
\* the load ends serving the record, or with no valid record (RuntimeError).
C6_StringNumberNeverFatal ==
    (pc # "import" /\ OneRecord /\ IsStr(RawNumber(Items[1]))) =>
        /\ loadError \in {"none", "RuntimeError"}
        /\ pc = "serving" => _DATASET[1].number = SpecNumber(Items[1])
        /\ ~IsInt(SpecNumber(Items[1])) => _DATASET = <<>>

\* a legacy-schema record: integer number, non-blank kural and translation,
\* section and chapter absent or strings, no key of the extended schema
ValidLegacy(item) ==
    /\ IsDict(item)
    /\ IsInt(item.number)
    /\ NonBlankStr(item.kural)
    /\ NonBlankStr(item.translation)
    /\ item.section = Absent \/ IsStr(item.section)
    /\ item.chapter = Absent \/ IsStr(item.chapter)
    /\ \A k \in {"Number", "Line1", "Line2", "Translation", "couplet", "explanation"} :
           item[k] = Absent

\* C7 as stated: a valid legacy record is normalized to itself, every
\* field unchanged.
C7_LegacyIdentity ==
    (pc # "import" /\ OneRecord /\ ValidLegacy(Items[1])) =>
        /\ pc = "serving"
        /\ _DATASET[1].number = Items[1].number
        /\ _DATASET[1].kural = Items[1].kural
        /\ _DATASET[1].translation = Items[1].translation
        /\ _DATASET[1].section = Present(Items[1].section)
        /\ _DATASET[1].chapter = Present(Items[1].chapter)

\* C7, amended: a valid legacy record is loaded with its number, kural,
\* section and chapter unchanged, and its translation trimmed.
C7_LegacyIdentityButTrim ==
    (pc # "import" /\ OneRecord /\ ValidLegacy(Items[1])) =>
        /\ pc = "serving"
        /\ _DATASET[1].number = Items[1].number
        /\ _DATASET[1].kural = Items[1].kural
        /\ _DATASET[1].translation = StrV(strip(Items[1].translation.s))
        /\ _DATASET[1].section = Present(Items[1].section)
        /\ _DATASET[1].chapter = Present(Items[1].chapter)

\* a legacy record with padded kural and translation: the kural is kept as
\* it is and the translation is trimmed
C7_Witness ==
    /\ pc = "serving"
    /\ OneRecord
    /\ ValidLegacy(Items[1])
    /\ Items[1].kural = StrV(<<" ", "a">>)
    /\ Items[1].translation = StrV(<<"a", " ">>)
    /\ _DATASET[1].kural = StrV(<<" ", "a">>)
    /\ _DATASET[1].translation = Str1("a")

\* C8: while the process serves, whatever the handlers do and however they
\* interleave, _DATASET is the value the load produced and is not empty, and
\* no random request ends in the 503 of an empty dataset (nor in a 500).
C8_DatasetImmutable ==
    pc = "serving" =>
        /\ _DATASET = _load_dataset(file).records
        /\ _DATASET # <<>>
        /\ \A r \in Requests :
               requests[r].op = "random" => requests[r].resp.status \in {0, 200}

\* a random request between its two reads of _DATASET while an analyze
\* request and another random request have returned
C8_Witness ==
    \E r1, r2, r3 \in Requests :
        /\ requests[r1].op = "random" /\ requests[r1].at = "choice"
        /\ requests[r2].op = "analyze" /\ requests[r2].resp.status = 200
        /\ requests[r3].op = "random" /\ requests[r3].resp.status = 200

Elements == {_DATASET[i] : i \in 1..Len(_DATASET)}

\* C9: every answer of get_random_thirukural is a record of _DATASET, field
\* for field, and whatever was picked before, a call that has reached
\* random.choice can return any record of _DATASET.
C9_RandomSelection ==
    /\ \A r \in Requests :
           (requests[r].op = "random" /\ requests[r].at = "done") =>
               \E item \in Elements : requests[r].resp = Response(200, ThirukuralOut(item))
    /\ \A k \in 1..Len(picks) : picks[k] \in Elements
    /\ \A r \in Requests :
           requests[r].at = "choice" =>
               \A item \in Elements : ENABLED get_random_thirukural_item(r, item)

\* the same record picked twice in a row out of two, and a third call at
\* random.choice
C9_Witness ==
    /\ Len(_DATASET) = 2
    /\ _DATASET[1] # _DATASET[2]
    /\ Len(picks) = 2
    /\ picks[1] = picks[2]
    /\ \E r \in Requests : requests[r].at = "choice"

\* a payload the generator must reject: number no integer, or kural or
\* translation missing, no string, or blank
InvalidPayload(p) ==
    ~IsInt(p.number) \/ ~NonBlankStr(p.kural) \/ ~NonBlankStr(p.translation)

\* C10: analyze_kural_for_user rejects every invalid payload with ValueError,
\* never another error, and returns a result for every valid one.
C10_RejectsWithValueError ==
    call.at = "returned" =>
        IF InvalidPayload(call.payload)
        THEN call.result = Raise("ValueError")
        ELSE call.result.t = "result"

\* the number of a record resolved from its Number key alone
NumberKeyUnusable(item) == item.Number # Absent /\ ~IsInt(SpecNumber(item))

\* C11: when Number is present the number is resolved from it alone and the
\* number key is not consulted; a record whose Number is present but
\* resolves to no integer is dropped, whatever its number key holds, so a
\* file of that one record loads nothing and ends with no valid record.
C11_NumberKeyFirst ==
    (pc # "import" /\ OneRecord /\ Items[1].Number # Absent) =>
        /\ pc = "serving" => _DATASET[1].number = SpecNumber(Items[1])
        /\ NumberKeyUnusable(Items[1]) =>
               /\ _DATASET = <<>>
               /\ loadError = "RuntimeError"

=============================================================================
